---- MODULE Spec2Model ----
(***************************************************************************)
(* Back to the Jukebox (back_2_the_jukebox.py): the playback session of    *)
(* class BackToTheJukebox (track sequencing, position tracking, the        *)
(* end-of-track monitor, playlists and the tree view that feeds track      *)
(* activation) and the plasma visualizer's producer/consumer queue.        *)
(*                                                                         *)
(* A track is identified by its path, a number in Paths; its metadata      *)
(* duration is Duration(path).  Python list objects that the program       *)
(* aliases (a playlist is shared by playlists_data, current_playlist,      *)
(* filtered_library and current_track_list) live in heap and are named by  *)
(* references; LIB is the reference of self.library.  Indices are 0-based  *)
(* as in the source; wall-clock time is counted in whole seconds.          *)
(***************************************************************************)
EXTENDS Integers, Sequences, FiniteSets, TLC

\* ---------------------------------------------------------------- bounds
NumPaths == 3       \* audio files in the music folders scanned at start-up
MaxNames == 2       \* playlist names the user types
MaxLists == 1       \* playlist list objects created during the session
MaxPlaylistLen == 2 \* songs the user puts in one playlist
MaxTime == 2        \* seconds of wall-clock time that pass
MaxSeek == 1        \* largest position the seek control is released at
MaxFrames == 4      \* plasma frames the producer computes

\* ------------------------------------------------------- program constants
None == -1          \* Python's None, for optional integers and references
LIB == 0            \* the reference of self.library
QueueMaxSize == 2   \* queue.Queue(maxsize=2)
ScaleInit == 100    \* tk.Scale(from_=0, to=100)

Paths == 1..NumPaths
Names == 1..MaxNames
ObjIds == 1..MaxLists
Epoch == MaxSeek    \* time.time() at start-up: any clock value >= a seek position

\* track.get("duration", 0): 0 (unknown) for the first file, then 1, 2, ...
Duration(path) == path - 1

VARIABLES
    library,                \* self.library: sequence of paths
    playlists_data,         \* self.playlists_data: name -> list reference or None
    heap,                   \* contents of the playlist list objects
    nalloc,                 \* number of list objects created so far
    current_playlist,       \* self.current_playlist: reference or None
    filtered_library,       \* self.filtered_library: [ref, own]
    tree,                   \* paths (tags) of the rows shown in self.tree
    current_track_list,     \* self.current_track_list: None, LIB or a reference
    current_track_index,    \* self.current_track_index: None or 0-based index
    current_track_duration, \* self.current_track_duration
    stored_next_song,       \* self.stored_next_song: None or a path
    random_mode,            \* self.random_mode
    play_start_time,        \* self.play_start_time: None or a clock value
    play_offset,            \* self.play_offset
    scale_to,               \* the "to" option of self.progress_scale
    scale_value,            \* the value of self.progress_scale
    user_dragging,          \* self.user_dragging
    now,                    \* time.time()
    busy,                   \* pygame.mixer.music.get_busy()
    enginePos,              \* pygame.mixer.music.get_pos() in seconds, -1 when not playing
    loaded,                 \* the path the mixer has loaded, or None
    scheduled,              \* the tick callbacks pending in Tk's after() queue
    last                    \* the step that ran last: [op, path, err]

VARIABLES
    vis_open,               \* the visualizer window exists
    plasma_queue,           \* plasma_queue of open_visualizer_window: frames, oldest first
    stop_event,             \* stop_event.is_set()
    prodPc,                 \* compute_plasma: "off", "loop", "compute", "put" or "sleep"
    photo,                  \* the frame compute_plasma holds, or None
    frames_made,            \* frames computed so far; a frame is its number
    canvas_image,           \* canvas.image: the frame drawn last, or None
    consumerScheduled,      \* canvas.after(25, update_canvas) is pending
    vis_last                \* what the pipeline did last

VARIABLES
    scanPc,                 \* the scan_and_update thread: "off" or "scanning"
    viewPending             \* self.after(0, self.update_library_view) is pending

scanVars == <<scanPc, viewPending>>

VARIABLES
    typed_names             \* the names the user of this run types into the name dialogs

VARIABLES
    plist,                  \* a playlist store to be saved: name -> list of track dicts
    playlists_file,         \* playlists.json: absent, not parseable, or a JSON document
    reloaded,               \* the value load_playlists() returned
    persist_last            \* the persistence function that ran last

persistVars == <<plist, playlists_file, reloaded, persist_last>>

visVars == <<vis_open, plasma_queue, stop_event, prodPc, photo, frames_made,
             canvas_image, consumerScheduled, vis_last>>

playerVars == <<library, playlists_data, heap, nalloc, current_playlist,
                filtered_library, tree, current_track_list, current_track_index,
                current_track_duration, stored_next_song, random_mode, play_start_time, play_offset, scale_to, scale_value,
                user_dragging, now, busy, enginePos, loaded, scheduled, last>>

vars == <<playerVars, visVars, scanVars, persistVars, typed_names>>

\* ---------------------------------------------------------------- helpers
Max(a, b) == IF a >= b THEN a ELSE b
Min(a, b) == IF a <= b THEN a ELSE b

\* The Python list a reference denotes.
ListOf(ref) == IF ref = LIB THEN library ELSE heap[ref]

\* 0-based index of the first element of L equal to path (enumerate + break).
FirstIndex(L, path) == CHOOSE i \in 0..(Len(L) - 1) :
                           /\ L[i + 1] = path
                           /\ \A k \in 0..(i - 1) : L[k + 1] # path

Contains(L, path) == \E i \in 1..Len(L) : L[i] = path

\* A candidate list that does not exclude the current index.
AllIndices(L, idx) == 0..(Len(L) - 1)

\* [t for i, t in enumerate(L) if i != idx], as the set of eligible indices.
OtherIndices(L, idx) == {i \in 0..(Len(L) - 1) : i # idx}

\* A sequencer that stays on the last track instead of wrapping to the first.
SequentialNextNoWrap(idx, n) == Min(idx + 1, n - 1)

\* next_idx = (idx + 1) % len(self.current_track_list)
SequentialNext(idx, n) == (idx + 1) % n

\* What a step leaves in last: the handler's name, the path given to
\* play_track_by_path (None for other handlers) and the exception raised
\* inside the handler ("none" if none).
Did(op, path, err) == [op |-> op, path |-> path, err |-> err]

\* What a step leaves that is no track activation, advance, shuffle toggle,
\* stop, seek or switch of the playlist.
Other == Did("other", None, "none")

\* ------------------------------------------------------------ the sequencer
\* The indices random.choice may return in play_track_by_path; {None} stands for
\* "no draw is made" (sequential mode, or path not found) and for the empty
\* candidate list, on which random.choice raises IndexError.
SelectChoices(L, track_path, rnd) ==
    IF rnd /\ Contains(L, track_path) /\ OtherIndices(L, FirstIndex(L, track_path)) # {}
    THEN OtherIndices(L, FirstIndex(L, track_path))
    ELSE {None}

\* The for loop of play_track_by_path: the index, duration and cached next song
\* it leaves, and the exception it raises.  idx0, dur0, stored0 are the values
\* before the loop; j is the index random.choice draws.
SelectTrack(L, track_path, idx0, dur0, stored0, rnd, j) ==
    IF ~Contains(L, track_path)
    THEN [found |-> FALSE, index |-> idx0, duration |-> dur0, stored |-> stored0,
          err |-> "none"]
    ELSE LET idx == FirstIndex(L, track_path) IN
         IF ~rnd
         THEN [found |-> TRUE, index |-> idx, duration |-> Duration(track_path),
               stored |-> L[SequentialNext(idx, Len(L)) + 1], err |-> "none"]
         ELSE IF OtherIndices(L, idx) = {}
         THEN [found |-> TRUE, index |-> idx, duration |-> Duration(track_path),
               stored |-> stored0, err |-> "IndexError"]
         ELSE [found |-> TRUE, index |-> idx, duration |-> Duration(track_path),
               stored |-> L[j + 1], err |-> "none"]

\* The indices random.choice may return in update_next_song_label.
LabelChoices(stored, ref, idx, rnd) ==
    IF stored = None /\ ref # None /\ idx # None /\ rnd
       /\ OtherIndices(ListOf(ref), idx) # {}
    THEN OtherIndices(ListOf(ref), idx)
    ELSE {None}

\* update_next_song_label on the given cached song, active list reference and
\* index: the cached song it leaves (the label shows its title) and the exception
\* it raises ((idx + 1) % 0 raises ZeroDivisionError, random.choice([]) IndexError).
UpdateNextSongLabel(stored, ref, idx, rnd, k) ==
    IF stored # None
    THEN [stored |-> stored, err |-> "none"]
    ELSE IF ref # None /\ idx # None
    THEN LET L == ListOf(ref) IN
         IF ~rnd
         THEN IF Len(L) = 0
              THEN [stored |-> None, err |-> "ZeroDivisionError"]
              ELSE [stored |-> L[SequentialNext(idx, Len(L)) + 1], err |-> "none"]
         ELSE IF OtherIndices(L, idx) = {}
              THEN [stored |-> None, err |-> "IndexError"]
              ELSE [stored |-> L[k + 1], err |-> "none"]
    ELSE [stored |-> None, err |-> "none"]

\* elapsed = max(computed_elapsed, get_elapsed), as update_progress_bar and
\* monitor_playback compute it.
ElapsedOf(clock, start, offset, pos) == Max((clock - start) + offset, pos)

Elapsed == ElapsedOf(now, play_start_time, play_offset, enginePos)

\* self.current_playlist if self.current_playlist is not None else self.library
ActiveRef == IF current_playlist # None THEN current_playlist ELSE LIB

\* play_track_by_path(track_path), called by handler op with
\* self.current_track_index = idx0.  Everything from the for loop to
\* update_next_song_label is inside the try; the except shows a dialog and
\* returns.  load() raises on a file the mixer cannot read.
PlayTrackByPath(op, track_path, idx0) ==
    LET ref == ActiveRef
        L == ListOf(ref)
    IN \E j \in SelectChoices(L, track_path, random_mode), loadOk \in BOOLEAN :
       LET sel == SelectTrack(L, track_path, idx0, current_track_duration,
                              stored_next_song, random_mode, j)
       IN /\ current_track_list' = ref
          /\ current_track_index' = sel.index
          /\ current_track_duration' = sel.duration
          /\ IF sel.err # "none" \/ ~loadOk
             THEN /\ stored_next_song' = sel.stored
                  /\ UNCHANGED <<play_start_time, play_offset,
                                 scale_to, scale_value, busy, enginePos, loaded>>
                  /\ last' = Did(op, track_path,
                                 IF sel.err # "none" THEN sel.err ELSE "LoadError")
             ELSE \E k \in LabelChoices(sel.stored, ref, sel.index, random_mode) :
                  LET lab == UpdateNextSongLabel(sel.stored, ref,
                                                 sel.index, random_mode, k)
                  IN /\ loaded' = track_path
                     /\ busy' = TRUE
                     /\ enginePos' = 0
                     /\ play_start_time' = now
                     /\ play_offset' = 0
                     /\ scale_to' = sel.duration
                     /\ scale_value' = Min(scale_value, sel.duration)
                     /\ stored_next_song' = lab.stored
                     /\ last' = Did(op, track_path, lab.err)

\* on_tree_double_click / play_selected: the user activates a row of the tree.
OnTreeDoubleClick ==
    /\ \E track_path \in tree :
           PlayTrackByPath("play_track_by_path", track_path, current_track_index)
    /\ UNCHANGED <<visVars, typed_names, persistVars, scanVars, library, playlists_data, heap, nalloc, current_playlist,
                   filtered_library, tree, random_mode, user_dragging, now,
                   scheduled>>

\* The indices play_next_song may move to; the empty set when it raises
\* (random.randint(0, -1) raises ValueError on an empty list).
NextIndexChoices(L, idx, rnd) ==
    IF rnd
    THEN IF Len(L) = 0 THEN {}
         ELSE IF Len(L) > 1 THEN OtherIndices(L, idx) ELSE {0}
    ELSE {IF idx + 1 >= Len(L) THEN 0 ELSE idx + 1}

\* play_next_song, called by monitor_playback.  It raises when the active list
\* is empty (ValueError in random mode; otherwise IndexError at
\* self.current_track_list[next_index], after the index was set to 0); the
\* exception leaves monitor_playback before it reschedules itself.
PlayNextSong ==
    IF current_track_list = None \/ current_track_index = None
    THEN /\ last' = Did("play_next_song", None, "none")
         /\ UNCHANGED <<current_track_list, current_track_index, current_track_duration,
                        stored_next_song, play_start_time, play_offset,
                        scale_to, scale_value, busy, enginePos, loaded, scheduled>>
    ELSE LET L == ListOf(current_track_list) IN
         IF Len(L) = 0
         THEN /\ current_track_index' = IF random_mode THEN current_track_index ELSE 0
              /\ last' = Did("play_next_song", None,
                             IF random_mode THEN "ValueError" ELSE "IndexError")
              /\ scheduled' = scheduled \ {"monitor_playback"}
              /\ UNCHANGED <<current_track_list, current_track_duration,
                             stored_next_song, play_start_time,
                             play_offset, scale_to, scale_value, busy, enginePos, loaded>>
         ELSE /\ \E next_index \in NextIndexChoices(L, current_track_index, random_mode) :
                    PlayTrackByPath("play_next_song", L[next_index + 1], next_index)
              /\ UNCHANGED scheduled

\* An end-of-track test with two seconds of slack instead of one.
TrackFinishedWideSlack(elapsed, duration, isBusy) == elapsed >= duration - 2 /\ ~isBusy

\* An end-of-track test that is satisfied by either of its two conditions.
TrackFinishedEither(elapsed, duration, isBusy) == elapsed >= duration - 1 \/ ~isBusy

\* if elapsed >= self.current_track_duration - 1 and not get_busy()
TrackFinished(elapsed, duration, isBusy) == elapsed >= duration - 1 /\ ~isBusy

\* A monitor guard that does not look at the duration.
MonitorGuardAnyDuration(duration, start) == start # None

\* if self.current_track_duration and self.play_start_time is not None
MonitorGuard(duration, start) == duration # 0 /\ start # None

\* monitor_playback: one run of the end-of-track tick.
MonitorPlayback ==
    /\ "monitor_playback" \in scheduled
    /\ IF /\ MonitorGuard(current_track_duration, play_start_time)
          /\ TrackFinished(Elapsed, current_track_duration, busy)
       THEN PlayNextSong
       ELSE /\ last' = Did("monitor_playback", None, "none")
            /\ UNCHANGED <<current_track_list, current_track_index,
                           current_track_duration, stored_next_song, play_start_time,
                           play_offset, scale_to, scale_value, busy, enginePos, loaded,
                           scheduled>>
    /\ UNCHANGED <<visVars, typed_names, persistVars, scanVars, library, playlists_data, heap, nalloc, current_playlist,
                   filtered_library, tree, random_mode, user_dragging, now>>

\* A progress tick that sets the scale whether or not the user drags it.
ProgressValueAlways(dragging, value, elapsed, to) == Min(elapsed, to)

\* if not self.user_dragging: self.progress_scale.set(elapsed); the scale
\* keeps a value set beyond its range at the end of the range.
ProgressValue(dragging, value, elapsed, to) ==
    IF ~dragging THEN Min(elapsed, to) ELSE value

\* update_progress_bar: one run of the progress tick.
UpdateProgressBar ==
    /\ "update_progress_bar" \in scheduled
    /\ IF busy /\ play_start_time # None
       THEN scale_value' = ProgressValue(user_dragging, scale_value, Elapsed, scale_to)
       ELSE UNCHANGED <<scale_value>>
    /\ last' = Did("update_progress_bar", None, "none")
    /\ UNCHANGED <<visVars, typed_names, persistVars, scanVars, library, playlists_data, heap, nalloc, current_playlist,
                   filtered_library, tree, current_track_list, current_track_index,
                   current_track_duration, stored_next_song, random_mode, play_start_time, play_offset, scale_to, user_dragging,
                   now, busy, enginePos, loaded, scheduled>>

\* animate_equalizer: one run of the equalizer tick; it redraws the bars from
\* random targets and reschedules itself.
AnimateEqualizer ==
    /\ "animate_equalizer" \in scheduled
    /\ last' = Other
    /\ UNCHANGED <<visVars, typed_names, persistVars, scanVars, library, playlists_data, heap, nalloc, current_playlist,
                   filtered_library, tree, current_track_list, current_track_index,
                   current_track_duration, stored_next_song, random_mode, play_start_time, play_offset, scale_to, scale_value,
                   user_dragging, now, busy, enginePos, loaded, scheduled>>

\* toggle_shuffle: an exception of update_next_song_label leaves the handler
\* after the flag was flipped and the cache cleared.
ToggleShuffle ==
    /\ random_mode' = ~random_mode
    /\ \E k \in LabelChoices(None, current_track_list, current_track_index, ~random_mode) :
          LET lab == UpdateNextSongLabel(None, current_track_list,
                                         current_track_index, ~random_mode, k)
          IN /\ stored_next_song' = lab.stored
             /\ last' = Did("toggle_shuffle", None, lab.err)
    /\ UNCHANGED <<visVars, typed_names, persistVars, scanVars, library, playlists_data, heap, nalloc, current_playlist,
                   filtered_library, tree, current_track_list, current_track_index,
                   current_track_duration, play_start_time, play_offset, scale_to,
                   scale_value, user_dragging, now, busy, enginePos, loaded, scheduled>>

\* stop_music: pygame.mixer.music.stop(); get_pos() is -1 once the music has stopped.
StopMusic ==
    /\ busy' = FALSE
    /\ enginePos' = -1
    /\ last' = Did("stop_music", None, "none")
    /\ UNCHANGED <<visVars, typed_names, persistVars, scanVars, library, playlists_data, heap, nalloc, current_playlist,
                   filtered_library, tree, current_track_list, current_track_index,
                   current_track_duration, stored_next_song, random_mode, play_start_time, play_offset, scale_to, scale_value,
                   user_dragging, now, loaded, scheduled>>

\* <ButtonPress-1> on the progress scale: the lambda sets user_dragging and the
\* user moves the slider to value v before releasing the button.
OnProgressPress ==
    /\ ~user_dragging
    /\ \E v \in 0..Min(scale_to, MaxSeek) : scale_value' = v
    /\ user_dragging' = TRUE
    /\ last' = Other
    /\ UNCHANGED <<visVars, typed_names, persistVars, scanVars, library, playlists_data, heap, nalloc, current_playlist,
                   filtered_library, tree, current_track_list, current_track_index,
                   current_track_duration, stored_next_song, random_mode, play_start_time, play_offset, scale_to, now, busy,
                   enginePos, loaded, scheduled>>

\* self.play_start_time = time.time() - pos
SeekStartTime(clock, pos) == clock - pos

\* on_progress_release: set_pos may raise (caught and printed); get_pos() keeps
\* counting the time since play() whatever position was set.
OnProgressRelease ==
    /\ user_dragging
    /\ \E seekOk \in BOOLEAN :
          last' = Did("on_progress_release", None,
                      IF seekOk THEN "none" ELSE "SeekError")
    /\ play_start_time' = SeekStartTime(now, scale_value)
    /\ play_offset' = 0
    /\ user_dragging' = FALSE
    /\ UNCHANGED <<visVars, typed_names, persistVars, scanVars, library, playlists_data, heap, nalloc, current_playlist,
                   filtered_library, tree, current_track_list, current_track_index,
                   current_track_duration, stored_next_song, random_mode, scale_to, scale_value, now, busy, enginePos, loaded,
                   scheduled>>

\* ------------------------------------------------- library view and playlists
\* The list self.filtered_library denotes: the loaded playlist object it
\* aliases (load_playlist) or its own list (search_library, show_all_music).
FilteredSeq(flt, hp) == IF flt.ref # None THEN hp[flt.ref] ELSE flt.own

\* update_library_view: the rows of filtered_library if it is non-empty, else
\* of the library.
TreeRows(flt, hp, lib) ==
    LET tracks == IF Len(FilteredSeq(flt, hp)) > 0 THEN FilteredSeq(flt, hp) ELSE lib
    IN {tracks[i] : i \in 1..Len(tracks)}

\* search_library: query matches the title of one track, or is empty (None).
SearchLibrary ==
    /\ \E query \in Paths \cup {None} :
          /\ filtered_library' =
                 [ref |-> None,
                  own |-> IF query = None THEN <<>>
                          ELSE SelectSeq(library, LAMBDA t : t = query)]
          /\ last' = Other
    /\ tree' = TreeRows(filtered_library', heap, library)
    /\ UNCHANGED <<visVars, typed_names, persistVars, scanVars, library, playlists_data, heap, nalloc, current_playlist,
                   current_track_list, current_track_index, current_track_duration,
                   stored_next_song, random_mode, play_start_time,
                   play_offset, scale_to, scale_value, user_dragging, now, busy,
                   enginePos, loaded, scheduled>>

\* ------------------------------------------------------- playlist persistence
\* Python values of a track dict: v is the integer, or the identity of the
\* string or image.
PyNone == [t |-> "NoneType", v |-> 0]
PyInt(n) == [t |-> "int", v |-> n]
PyStr(s) == [t |-> "str", v |-> s]
PyImage(i) == [t |-> "Image", v |-> i]

\* get_track_metadata(file_path): the title is the file name, artist and album
\* are the defaults; art tells whether an APIC picture was extracted.
GetTrackMetadata(path, art) ==
    [path |-> PyStr(path), title |-> PyStr(path), artist |-> PyStr(0),
     album |-> PyStr(0),
     album_art |-> IF art THEN PyImage(path) ELSE PyNone,
     duration |-> PyInt(Duration(path))]

\* The keys save_playlists writes for a track.
SavedKeys == {"path", "title", "artist", "album", "duration"}

\* dict.get(key): None for a missing key.
Get(track, key) == IF key \in DOMAIN track THEN track[key] ELSE PyNone

\* The dict save_playlists appends for a track, with the artwork added to it.
SerializableTrackWithArt(track) ==
    [k \in SavedKeys \cup {"album_art"} |-> Get(track, k)]

\* The dict save_playlists appends for a track.
SerializableTrack(track) == [k \in SavedKeys |-> Get(track, k)]

\* serializable, as save_playlists builds it from plist.items().
Serializable(store) ==
    [n \in DOMAIN store |->
        [i \in 1..Len(store[n]) |-> SerializableTrack(store[n][i])]]

\* The text json.dump writes for a Python value: null, the digits of an int,
\* a quoted string; it raises TypeError on any other value.
JNull == "null"
JNumber(n) == ToString(n)
JString(s) == "\"" \o ToString(s) \o "\""
JNotSerializable == "TypeError"

JsonValue(py) ==
    CASE py.t = "NoneType" -> JNull
      [] py.t = "int" -> JNumber(py.v)
      [] py.t = "str" -> JString(py.v)
      [] OTHER -> JNotSerializable

\* The Python values json.load can produce from a scalar of the file.
PyScalars ==
    {PyNone} \cup {PyInt(n) : n \in 0..NumPaths} \cup {PyStr(s) : s \in 0..NumPaths}

\* json.load of a scalar: the value that text denotes.
PyValue(text) == CHOOSE py \in PyScalars : JsonValue(py) = text

\* A JSON object maps its keys to values; an array is a sequence.
JsonObject(dict) == [k \in DOMAIN dict |-> JsonValue(dict[k])]
JsonArray(list) == [i \in 1..Len(list) |-> JsonObject(list[i])]
JsonDocument(obj) == [n \in DOMAIN obj |-> JsonArray(obj[n])]

\* json.dump raised TypeError on some value of the document.
RaisedTypeError(doc) ==
    \E n \in DOMAIN doc : \E i \in 1..Len(doc[n]) : \E k \in DOMAIN doc[n][i] :
        doc[n][i][k] = JNotSerializable

\* json.load: objects become dicts, arrays lists.
PyDict(object) == [k \in DOMAIN object |-> PyValue(object[k])]
PyList(array) == [i \in 1..Len(array) |-> PyDict(array[i])]
JsonLoad(doc) == [n \in DOMAIN doc |-> PyList(doc[n])]

\* playlists.json.
AbsentFile == [state |-> "absent", doc |-> <<>>]
UnparseableFile == [state |-> "unparseable", doc |-> <<>>]
JsonFile(doc) == [state |-> "json", doc |-> doc]

EmptyStore == [n \in {} |-> <<>>]

\* save_playlists(plist): open(PLAYLISTS_FILE, "w") truncates the file, then
\* json.dump writes the document; if json.dump raises, the error is printed
\* and the file is left without a complete document.
save_playlists(store) ==
    LET doc == JsonDocument(Serializable(store))
    IN IF RaisedTypeError(doc) THEN UnparseableFile ELSE JsonFile(doc)

\* load_playlists(): {} when the file is absent or json.load raises.
load_playlists(file) ==
    IF file.state = "json" THEN JsonLoad(file.doc) ELSE EmptyStore

\* The track dicts a playlist can hold: library tracks, with or without
\* artwork, and tracks that came from playlists.json.
LibraryTracks == {GetTrackMetadata(p, a) : p \in Paths, a \in BOOLEAN}
FileTracks == {SerializableTrack(t) : t \in LibraryTracks}
Tracks == LibraryTracks \cup FileTracks

\* Playlists: add_song_to_playlist refuses a path already in the playlist.
TrackLists ==
    {l \in UNION {[1..k -> Tracks] : k \in 0..MaxPlaylistLen} :
        \A i, j \in 1..Len(l) : i # j => l[i].path # l[j].path}

Stores == UNION {[D -> TrackLists] : D \in SUBSET Names}

\* self.playlists_data as save_playlists receives it: each stored name with the
\* track dicts of its list, which are the library's own dicts.  The last file
\* scanned carries an embedded picture.
HasArt(path) == path = NumPaths

\* The track dict get_track_metadata made for each file of the library.
LibraryDict == [path \in Paths |-> GetTrackMetadata(path, HasArt(path))]
StoreOf(pd, hp) ==
    [n \in {m \in Names : pd[m] # None} |->
        [i \in 1..Len(hp[pd[n]]) |-> LibraryDict[hp[pd[n]][i]]]]

\* save_playlists(self.playlists_data) at the end of a playlist handler.
AutoSave ==
    /\ playlists_file' = save_playlists(StoreOf(playlists_data', heap'))
    /\ persist_last' = "save_playlists"
    /\ UNCHANGED <<plist, reloaded>>

\* _create_new_playlist: the name is bound to the current playlist object, or
\* to a new empty list when there is none.
CreateNewPlaylist ==
    /\ \E new_name \in typed_names :
          IF current_playlist = None
          THEN /\ nalloc < MaxLists
               /\ nalloc' = nalloc + 1
               /\ current_playlist' = nalloc + 1
               /\ playlists_data' = [playlists_data EXCEPT ![new_name] = nalloc + 1]
          ELSE /\ playlists_data' = [playlists_data EXCEPT ![new_name] = current_playlist]
               /\ UNCHANGED <<nalloc, current_playlist>>
    /\ last' = Other
    /\ UNCHANGED <<visVars, typed_names, scanVars, library, heap, filtered_library, tree, current_track_list,
                   current_track_index, current_track_duration, stored_next_song,
                   random_mode, play_start_time, play_offset, scale_to,
                   scale_value, user_dragging, now, busy, enginePos, loaded, scheduled>>
    /\ AutoSave

\* The playlist after add_song_to_playlist(track_path): unchanged when the song
\* is already in it or is not in the library.
AddedTo(playlist, track_path, lib) ==
    IF Contains(playlist, track_path) \/ ~Contains(lib, track_path)
    THEN playlist
    ELSE Append(playlist, track_path)

\* create_playlist_and_add, from the right-click menu of a tree row.
CreatePlaylistAndAdd ==
    /\ nalloc < MaxLists
    /\ \E new_name \in typed_names, track_path \in tree :
          /\ playlists_data' = [playlists_data EXCEPT ![new_name] = nalloc + 1]
          /\ heap' = [heap EXCEPT ![nalloc + 1] = AddedTo(<<>>, track_path, library)]
          /\ tree' = IF Contains(library, track_path)
                     THEN TreeRows(filtered_library, heap', library)
                     ELSE tree
          /\ last' = Other
    /\ nalloc' = nalloc + 1
    /\ current_playlist' = nalloc + 1
    /\ UNCHANGED <<visVars, typed_names, scanVars, library, filtered_library, current_track_list,
                   current_track_index, current_track_duration, stored_next_song,
                   random_mode, play_start_time, play_offset, scale_to,
                   scale_value, user_dragging, now, busy, enginePos, loaded, scheduled>>
    /\ AutoSave

\* add_song_to_playlist, from the right-click menu of a tree row.
AddSongToPlaylist ==
    /\ \E track_path \in tree :
          /\ current_playlist # None => Len(heap[current_playlist]) < MaxPlaylistLen
          /\ IF current_playlist = None
             THEN UNCHANGED <<heap, tree>>
             ELSE /\ heap' = [heap EXCEPT ![current_playlist] =
                                   AddedTo(heap[current_playlist], track_path, library)]
                  /\ tree' = IF heap' # heap
                             THEN TreeRows(filtered_library, heap', library)
                             ELSE tree
          /\ last' = Other
    /\ UNCHANGED <<visVars, typed_names, scanVars, library, playlists_data, nalloc, current_playlist,
                   filtered_library, current_track_list, current_track_index,
                   current_track_duration, stored_next_song, random_mode, play_start_time, play_offset, scale_to, scale_value,
                   user_dragging, now, busy, enginePos, loaded, scheduled>>
    /\ IF current_playlist # None /\ heap' # heap
       THEN AutoSave
       ELSE UNCHANGED persistVars

\* del self.current_playlist[i] for the first i whose track has the path.
RemovedFrom(playlist, track_path) ==
    LET i == FirstIndex(playlist, track_path) + 1
    IN SubSeq(playlist, 1, i - 1) \o SubSeq(playlist, i + 1, Len(playlist))

\* remove_song_from_playlist: the menu entry exists only for a row whose track
\* is in the current playlist.
RemoveSongFromPlaylist ==
    /\ current_playlist # None
    /\ \E track_path \in tree :
          /\ Contains(heap[current_playlist], track_path)
          /\ heap' = [heap EXCEPT ![current_playlist] =
                          RemovedFrom(heap[current_playlist], track_path)]
          /\ last' = Other
    /\ tree' = TreeRows(filtered_library, heap', library)
    /\ UNCHANGED <<visVars, typed_names, scanVars, library, playlists_data, nalloc, current_playlist,
                   filtered_library, current_track_list, current_track_index,
                   current_track_duration, stored_next_song, random_mode, play_start_time, play_offset, scale_to, scale_value,
                   user_dragging, now, busy, enginePos, loaded, scheduled>>
    /\ AutoSave

\* load_playlist / load_sel: the user picks one of the stored names.
LoadPlaylist ==
    /\ \E name \in Names :
          /\ playlists_data[name] # None
          /\ current_playlist' = playlists_data[name]
          /\ filtered_library' = [ref |-> playlists_data[name], own |-> <<>>]
    /\ tree' = TreeRows(filtered_library', heap, library)
    /\ last' = Did("load_playlist", None, "none")
    /\ UNCHANGED <<visVars, typed_names, persistVars, scanVars, library, playlists_data, heap, nalloc, current_track_list,
                   current_track_index, current_track_duration, stored_next_song,
                   random_mode, play_start_time, play_offset, scale_to,
                   scale_value, user_dragging, now, busy, enginePos, loaded, scheduled>>

\* show_all_music
ShowAllMusic ==
    /\ current_playlist' = None
    /\ filtered_library' = [ref |-> None, own |-> <<>>]
    /\ tree' = TreeRows(filtered_library', heap, library)
    /\ last' = Did("show_all_music", None, "none")
    /\ UNCHANGED <<visVars, typed_names, persistVars, scanVars, library, playlists_data, heap, nalloc, current_track_list,
                   current_track_index, current_track_duration, stored_next_song,
                   random_mode, play_start_time, play_offset, scale_to,
                   scale_value, user_dragging, now, busy, enginePos, loaded, scheduled>>

\* ----------------------------------------------- persistence across runs
\* save_playlists(self.playlists_data).
SavePlaylists ==
    /\ playlists_file' = save_playlists(plist)
    /\ persist_last' = "save_playlists"
    /\ UNCHANGED <<playerVars, typed_names, visVars, scanVars, plist, reloaded>>

\* load_playlists().
LoadPlaylists ==
    /\ reloaded' = load_playlists(playlists_file)
    /\ persist_last' = "load_playlists"
    /\ UNCHANGED <<playerVars, typed_names, visVars, scanVars, plist, playlists_file>>

\* __init__ of the next run: self.playlists_data = load_playlists().
Restart ==
    /\ persist_last = "load_playlists"
    /\ plist' = reloaded
    /\ persist_last' = "__init__"
    /\ UNCHANGED <<playerVars, typed_names, visVars, scanVars, playlists_file, reloaded>>

\* ------------------------------------------------------------ the folder scan
\* add_music_folder: the folder is chosen and the scan_and_update thread started.
AddMusicFolder ==
    /\ scanPc = "off"
    /\ scanPc' = "scanning"
    /\ last' = Did("add_music_folder", None, "none")
    /\ UNCHANGED <<visVars, typed_names, persistVars, viewPending, library, playlists_data, heap, nalloc,
                   current_playlist, filtered_library, tree, current_track_list,
                   current_track_index, current_track_duration, stored_next_song,
                   random_mode, play_start_time, play_offset, scale_to, scale_value,
                   user_dragging, now, busy, enginePos, loaded, scheduled>>

\* scan_folder, in the scan_and_update thread: the next audio file of the
\* folder is read and self.library.append(track) is executed.
ScanStep ==
    /\ scanPc = "scanning"
    /\ Len(library) < NumPaths
    /\ library' = Append(library, Len(library) + 1)
    /\ last' = Did("scan_folder", Len(library) + 1, "none")
    /\ UNCHANGED <<visVars, typed_names, persistVars, scanVars, playlists_data, heap, nalloc,
                   current_playlist, filtered_library, tree, current_track_list,
                   current_track_index, current_track_duration, stored_next_song,
                   random_mode, play_start_time, play_offset, scale_to, scale_value,
                   user_dragging, now, busy, enginePos, loaded, scheduled>>

\* scan_and_update, in its thread, after scan_folder returned:
\* self.after(0, self.update_library_view).
ScanDone ==
    /\ scanPc = "scanning"
    /\ scanPc' = "off"
    /\ viewPending' = TRUE
    /\ last' = Did("scan_and_update", None, "none")
    /\ UNCHANGED <<visVars, typed_names, persistVars, library, playlists_data, heap, nalloc,
                   current_playlist, filtered_library, tree, current_track_list,
                   current_track_index, current_track_duration, stored_next_song,
                   random_mode, play_start_time, play_offset, scale_to, scale_value,
                   user_dragging, now, busy, enginePos, loaded, scheduled>>

\* update_library_view, run by the main loop for the after(0, ...) of the scan.
UpdateLibraryView ==
    /\ viewPending
    /\ viewPending' = FALSE
    /\ tree' = TreeRows(filtered_library, heap, library)
    /\ last' = Did("update_library_view", None, "none")
    /\ UNCHANGED <<visVars, typed_names, persistVars, scanPc, library, playlists_data, heap, nalloc,
                   current_playlist, filtered_library, current_track_list,
                   current_track_index, current_track_duration, stored_next_song,
                   random_mode, play_start_time, play_offset, scale_to, scale_value,
                   user_dragging, now, busy, enginePos, loaded, scheduled>>

\* ------------------------------------------------------ clock and audio engine
\* One second of wall-clock time passes; get_pos() counts on while music plays.
Tick ==
    /\ now < Epoch + MaxTime
    /\ now' = now + 1
    /\ enginePos' = IF busy THEN enginePos + 1 ELSE enginePos
    /\ last' = Other
    /\ UNCHANGED <<visVars, typed_names, persistVars, scanVars, library, playlists_data, heap, nalloc, current_playlist,
                   filtered_library, tree, current_track_list, current_track_index,
                   current_track_duration, stored_next_song, random_mode, play_start_time, play_offset, scale_to, scale_value,
                   user_dragging, busy, loaded, scheduled>>

\* The music reaches the end of the file: get_busy() turns False and get_pos()
\* is -1.  The file's real length need not be the duration of its metadata.
MusicEnds ==
    /\ busy
    /\ busy' = FALSE
    /\ enginePos' = -1
    /\ last' = Other
    /\ UNCHANGED <<visVars, typed_names, persistVars, scanVars, library, playlists_data, heap, nalloc, current_playlist,
                   filtered_library, tree, current_track_list, current_track_index,
                   current_track_duration, stored_next_song, random_mode, play_start_time, play_offset, scale_to, scale_value,
                   user_dragging, now, loaded, scheduled>>

\* ------------------------------------------------- the plasma frame pipeline
\* open_visualizer_window: a new queue and stop event, the producer thread
\* started, the first update_canvas scheduled.
OpenVisualizerWindow ==
    /\ ~vis_open
    /\ prodPc = "off"
    /\ vis_open' = TRUE
    /\ plasma_queue' = <<>>
    /\ stop_event' = FALSE
    /\ prodPc' = "loop"
    /\ canvas_image' = None
    /\ consumerScheduled' = TRUE
    /\ vis_last' = "opened"
    /\ UNCHANGED <<playerVars, typed_names, scanVars, persistVars, photo, frames_made>>

\* A producer loop that never looks at the stop flag.
ProducerLoopIgnoresStop ==
    /\ prodPc = "loop"
    /\ prodPc' = "compute"
    /\ vis_last' = "iteration"
    /\ UNCHANGED <<playerVars, typed_names, scanVars, persistVars, vis_open, plasma_queue, stop_event, photo, frames_made,
                   canvas_image, consumerScheduled>>

\* compute_plasma: while not stop_event.is_set()
ProducerLoop ==
    /\ prodPc = "loop"
    /\ prodPc' = IF stop_event THEN "off" ELSE "compute"
    /\ vis_last' = IF stop_event THEN "exited" ELSE "iteration"
    /\ UNCHANGED <<playerVars, typed_names, scanVars, persistVars, vis_open, plasma_queue, stop_event, photo, frames_made,
                   canvas_image, consumerScheduled>>

\* compute_plasma: the frame is computed and scaled to the canvas;
\* canvas.winfo_width() raises TclError once the window is destroyed, which
\* ends the thread.
ProducerCompute ==
    /\ prodPc = "compute"
    /\ vis_open => frames_made < MaxFrames
    /\ IF vis_open
       THEN /\ photo' = frames_made + 1
            /\ frames_made' = frames_made + 1
            /\ prodPc' = "put"
            /\ vis_last' = "computed"
       ELSE /\ prodPc' = "off"
            /\ vis_last' = "exited"
            /\ UNCHANGED <<photo, frames_made>>
    /\ UNCHANGED <<playerVars, typed_names, scanVars, persistVars, vis_open, plasma_queue, stop_event, canvas_image,
                   consumerScheduled>>

\* A queue that takes one frame more than its capacity.
HasRoomOffByOne(q) == Len(q) <= QueueMaxSize

\* queue.Queue.put with a free slot: not self._qsize() >= self.maxsize
HasRoom(q) == Len(q) < QueueMaxSize

\* plasma_queue.put(photo, timeout=0.01) with a free slot, then time.sleep.
ProducerPut ==
    /\ prodPc = "put"
    /\ HasRoom(plasma_queue)
    /\ plasma_queue' = Append(plasma_queue, photo)
    /\ prodPc' = "sleep"
    /\ vis_last' = "put"
    /\ UNCHANGED <<playerVars, typed_names, scanVars, persistVars, vis_open, stop_event, photo, frames_made, canvas_image,
                   consumerScheduled>>

\* plasma_queue.put(photo, timeout=0.01) on a queue still full when the
\* timeout ends: queue.Full is raised and passed over.
ProducerPutFull ==
    /\ prodPc = "put"
    /\ ~HasRoom(plasma_queue)
    /\ prodPc' = "sleep"
    /\ vis_last' = "dropped"
    /\ UNCHANGED <<playerVars, typed_names, scanVars, persistVars, vis_open, plasma_queue, stop_event, photo, frames_made,
                   canvas_image, consumerScheduled>>

\* time.sleep(0.05) ends.
ProducerSleep ==
    /\ prodPc = "sleep"
    /\ prodPc' = "loop"
    /\ vis_last' = "slept"
    /\ UNCHANGED <<playerVars, typed_names, scanVars, persistVars, vis_open, plasma_queue, stop_event, photo, frames_made,
                   canvas_image, consumerScheduled>>

\* update_canvas: get_nowait takes the oldest frame of the queue, if any.
UpdateCanvas ==
    /\ consumerScheduled
    /\ IF plasma_queue # <<>>
       THEN /\ canvas_image' = Head(plasma_queue)
            /\ plasma_queue' = Tail(plasma_queue)
            /\ vis_last' = "rendered"
       ELSE /\ vis_last' = "empty"
            /\ UNCHANGED <<canvas_image, plasma_queue>>
    /\ UNCHANGED <<playerVars, typed_names, scanVars, persistVars, vis_open, stop_event, prodPc, photo, frames_made,
                   consumerScheduled>>

\* on_close: stop_event.set(); vis_win.destroy() also ends the canvas's
\* after() callbacks.
OnClose ==
    /\ vis_open
    /\ stop_event' = TRUE
    /\ vis_open' = FALSE
    /\ consumerScheduled' = FALSE
    /\ vis_last' = "closed"
    /\ UNCHANGED <<playerVars, typed_names, scanVars, persistVars, plasma_queue, prodPc, photo, frames_made, canvas_image>>

\* ------------------------------------------------------------ specification
InitWith(lib, store, file, names) ==
    /\ library = lib
    /\ typed_names = names
    /\ plist = store
    /\ playlists_file = file
    /\ reloaded = EmptyStore
    /\ persist_last = "none"
    /\ scanPc = "off"
    /\ viewPending = FALSE
    /\ playlists_data = [n \in Names |-> None]
    /\ heap = [o \in ObjIds |-> <<>>]
    /\ nalloc = 0
    /\ current_playlist = None
    /\ filtered_library = [ref |-> None, own |-> <<>>]
    /\ tree = TreeRows([ref |-> None, own |-> <<>>], [o \in ObjIds |-> <<>>], lib)
    /\ current_track_list = None
    /\ current_track_index = None
    /\ current_track_duration = 0
    /\ stored_next_song = None
    /\ random_mode = FALSE
    /\ play_start_time = None
    /\ play_offset = 0
    /\ scale_to = ScaleInit
    /\ scale_value = 0
    /\ user_dragging = FALSE
    /\ now = Epoch
    /\ busy = FALSE
    /\ enginePos = -1
    /\ loaded = None
    /\ scheduled = {"animate_equalizer", "update_progress_bar", "monitor_playback"}
    /\ last = Did("__init__", None, "none")
    /\ vis_open = FALSE
    /\ plasma_queue = <<>>
    /\ stop_event = FALSE
    /\ prodPc = "off"
    /\ photo = None
    /\ frames_made = 0
    /\ canvas_image = None
    /\ consumerScheduled = FALSE
    /\ vis_last = "none"

\* The application started with its music folders scanned (__init__ scans the
\* configured folders before the main loop runs); its user keeps to one
\* playlist name.
Init == InitWith([i \in 1..NumPaths |-> i], EmptyStore, AbsentFile, {1})

\* The application started with no music folder configured.
ScanInit == InitWith(<<>>, EmptyStore, AbsentFile, {1})

\* The application started with its music folders scanned; its user types any
\* of the playlist names.
StoreInit == InitWith([i \in 1..NumPaths |-> i], EmptyStore, AbsentFile, Names)

\* The application holding any playlist store, with playlists.json in any
\* condition save_playlists can meet.
PersistInit ==
    \E store \in Stores, file \in {AbsentFile, UnparseableFile, JsonFile(<<>>)} :
        InitWith([i \in 1..NumPaths |-> i], store, file, {1})

\* Track activation, the end-of-track monitor and the audio engine.
Sequencing ==
    \/ OnTreeDoubleClick
    \/ MonitorPlayback
    \/ ToggleShuffle
    \/ StopMusic
    \/ MusicEnds

\* The clock, the seek control, the other two periodic ticks and the search.
Timing ==
    \/ Tick
    \/ SearchLibrary
    \/ OnProgressPress
    \/ OnProgressRelease
    \/ UpdateProgressBar
    \/ AnimateEqualizer

\* The playlists.
Playlists ==
    \/ CreateNewPlaylist
    \/ CreatePlaylistAndAdd
    \/ AddSongToPlaylist
    \/ RemoveSongFromPlaylist
    \/ LoadPlaylist
    \/ ShowAllMusic

\* Playback of the library: sequencing and position tracking as time passes.
Next == Sequencing \/ Timing

Spec == Init /\ [][Next]_vars

\* Playback while playlists are edited and loaded, at one reading of the clock
\* (the Stop button changes the session as the end of the music does).
PlaylistNext ==
    \/ OnTreeDoubleClick
    \/ MonitorPlayback
    \/ ToggleShuffle
    \/ MusicEnds
    \/ Playlists

PlaylistSpec == Init /\ [][PlaylistNext]_vars

\* The playlist store edited under several names, with tracks activated.
StoreNext ==
    \/ CreateNewPlaylist
    \/ CreatePlaylistAndAdd
    \/ AddSongToPlaylist
    \/ RemoveSongFromPlaylist
    \/ LoadPlaylist
    \/ ShowAllMusic
    \/ OnTreeDoubleClick

StoreSpec == StoreInit /\ [][StoreNext]_vars

\* The visualizer: the producer thread, the consumer tick, open and close.
VisNext ==
    \/ OpenVisualizerWindow
    \/ ProducerLoop
    \/ ProducerCompute
    \/ ProducerPut
    \/ ProducerPutFull
    \/ ProducerSleep
    \/ UpdateCanvas
    \/ OnClose

VisSpec == Init /\ [][VisNext]_vars

\* A folder is scanned by its worker thread while tracks are activated,
\* played to their end and advanced.
ScanNext ==
    \/ AddMusicFolder
    \/ ScanStep
    \/ ScanDone
    \/ UpdateLibraryView
    \/ OnTreeDoubleClick
    \/ MonitorPlayback
    \/ ToggleShuffle
    \/ MusicEnds

ScanSpec == ScanInit /\ [][ScanNext]_vars

\* The playlist store is saved, loaded and taken over by the next run.
PersistNext ==
    \/ SavePlaylists
    \/ LoadPlaylists
    \/ Restart

PersistSpec == PersistInit /\ [][PersistNext]_vars

\* The producer is a running daemon thread: the step it is at is eventually
\* taken (time.sleep and the timed put return, the loop test is evaluated).
ProducerFairness ==
    /\ WF_vars(ProducerLoop)
    /\ WF_vars(ProducerCompute)
    /\ WF_vars(ProducerPut)
    /\ WF_vars(ProducerPutFull)
    /\ WF_vars(ProducerSleep)

VisFairSpec == VisSpec /\ ProducerFairness

\* ------------------------------------------------------------------ claims
AllTicks == {"animate_equalizer", "update_progress_bar", "monitor_playback"}

\* The list play_track_by_path searches.
ActiveList == ListOf(ActiveRef)

\* The condition on which a monitor tick calls play_next_song.
AdvanceDue ==
    /\ current_track_duration # 0
    /\ play_start_time # None
    /\ TrackFinished(Elapsed, current_track_duration, busy)

\* A poll of the elapsed value can run: update_progress_bar computes it while
\* the engine is busy, monitor_playback while the duration is known.
Pollable ==
    /\ play_start_time # None
    /\ \/ busy /\ "update_progress_bar" \in scheduled
       \/ current_track_duration # 0 /\ "monitor_playback" \in scheduled

\* C1: when a next track is cached, the track play_next_song makes current (the
\* path it hands to play_track_by_path) is that cached track.
C1_AdvanceCommitsToCached ==
    [][(last'.op = "play_next_song" /\ last'.path # None /\ stored_next_song # None)
         => last'.path = stored_next_song]_vars

\* C2: the monitor advances once per track instance: after a monitor tick has
\* called play_next_song (and the engine did not refuse the file), the condition
\* to advance no longer holds, so the next tick does not advance again.
C2_AdvanceOncePerInstance ==
    (last.op = "play_next_song" /\ last.err # "LoadError"
       /\ "monitor_playback" \in scheduled)
      => ~AdvanceDue

\* C3: play_track_by_path with a path that is not in the active list changes
\* nothing: list, index, duration, cached next track, start time, offset stay
\* and the engine is not asked to load or play.
C3_AbsentPathChangesNothing ==
    [][(last'.op = "play_track_by_path" /\ ~Contains(ActiveList, last'.path))
         => UNCHANGED <<current_track_list, current_track_index,
                        current_track_duration, stored_next_song, play_start_time,
                        play_offset, loaded, busy, enginePos>>]_vars

\* C4: on an active list of length 1, selecting the sole track, toggling shuffle
\* and advancing raise nothing and leave the sole track as the cached next.
C4_SingletonLookahead ==
    [][(/\ Len(ActiveList) = 1
        /\ \/ last'.op = "play_track_by_path" /\ last'.path = ActiveList[1]
           \/ /\ last'.op \in {"toggle_shuffle", "play_next_song"}
              /\ current_track_list = ActiveRef
              /\ current_track_index = 0)
         => /\ last'.err \in {"none", "LoadError"}
            /\ stored_next_song' = ActiveList[1]]_vars

\* C5: load_playlist and show_all_music, when they switch the active list,
\* reset the current index to unset and clear the cached next track.
C5_SwitchResetsIndexAndCache ==
    [][(last'.op \in {"load_playlist", "show_all_music"} /\ ActiveRef' # ActiveRef)
         => (current_track_index' = None /\ stored_next_song' = None)]_vars

\* C6: every periodic tick is scheduled again after each of its runs, whatever
\* happened inside the run: all three ticks are pending in every state.
C6_TicksStayScheduled == scheduled = AllTicks

\* C7: the channel never holds more than 2 frames; a producer waiting in put
\* can always take its next step; and the step that ends a put on a full
\* channel leaves the queued frames as they are (the new frame is dropped),
\* while a put with room appends the new frame behind them.
C7_BoundedChannelDropsNewFrame ==
    /\ [](Len(plasma_queue) <= 2)
    /\ [](prodPc = "put" => ENABLED (ProducerPut \/ ProducerPutFull))
    /\ [][(prodPc = "put" /\ prodPc' # "put")
            => IF Len(plasma_queue) >= 2
               THEN plasma_queue' = plasma_queue /\ prodPc' = "sleep"
               ELSE plasma_queue' = Append(plasma_queue, photo)]_vars

\* C7 witness: a push met a full channel and was dropped; both queued frames
\* are older than the dropped one.
C7_Witness ==
    /\ vis_last = "dropped"
    /\ Len(plasma_queue) = 2
    /\ \A i \in 1..2 : plasma_queue[i] < photo

\* C8: right after a successful seek to position t (the scale value at
\* release), a poll of a playing track yields elapsed = t, whether t lies
\* before or after the position played so far.
C8_SeekThenPollYieldsTarget ==
    (last.op = "on_progress_release" /\ last.err = "none" /\ busy)
      => Elapsed = scale_value

\* C9: elapsed never goes backward: over any step that is neither a seek nor a
\* start of playback, a poll after the step yields no less than a poll before.
C9_ElapsedNeverGoesBackward ==
    [][(/\ last'.op \notin {"on_progress_release", "play_track_by_path",
                             "play_next_song"}
        /\ Pollable
        /\ Pollable')
         => ElapsedOf(now', play_start_time', play_offset', enginePos') >= Elapsed]_vars

\* C10: with shuffle off, selecting the track at index i of an active list of
\* length N >= 2 caches list[(i + 1) mod N] as the next track.
C10_SequentialLookahead ==
    [][(/\ last'.op \in {"play_track_by_path", "play_next_song"}
        /\ last'.path # None
        /\ ~random_mode
        /\ Len(ActiveList) >= 2
        /\ Contains(ActiveList, last'.path))
         => LET i == FirstIndex(ActiveList, last'.path)
                N == Len(ActiveList)
            IN /\ current_track_index' = i
               /\ stored_next_song' = ActiveList[((i + 1) % N) + 1]]_vars

\* C10 witness: the last track of a list of two or more was just selected with
\* shuffle off, and the cached next track is the first of the list.
C10_Witness ==
    /\ last.op = "play_track_by_path"
    /\ last.err = "none"
    /\ ~random_mode
    /\ current_track_list = ActiveRef
    /\ Len(ActiveList) >= 2
    /\ current_track_index = Len(ActiveList) - 1
    /\ ActiveList[current_track_index + 1] = last.path
    /\ stored_next_song = ActiveList[1]

\* The list the advance and the lookahead recomputation read.
PlayingList == ListOf(current_track_list)

\* A track is current: a list and an index into it are set.
HasCurrent ==
    /\ current_track_list # None
    /\ current_track_index # None
    /\ current_track_index < Len(PlayingList)

\* C11: with shuffle on and a list of N >= 2 tracks, the next track is never
\* the current one: the lookahead cached on select differs from the selected
\* track, the lookahead recomputed by a toggle to shuffle differs from the
\* track at the current index, and the track an advance moves to differs from
\* the track at the current index.
C11_ShuffleNeverCurrent ==
    [][/\ (/\ last'.op \in {"play_track_by_path", "play_next_song"}
           /\ last'.path # None
           /\ random_mode
           /\ Len(ActiveList) >= 2
           /\ Contains(ActiveList, last'.path))
          => /\ last'.err \in {"none", "LoadError"}
             /\ stored_next_song' # None
             /\ stored_next_song' # last'.path
             /\ Contains(ActiveList, stored_next_song')
       /\ (/\ last'.op = "toggle_shuffle"
           /\ random_mode'
           /\ HasCurrent
           /\ Len(PlayingList) >= 2)
          => /\ last'.err = "none"
             /\ stored_next_song' # None
             /\ stored_next_song' # PlayingList[current_track_index + 1]
       /\ (/\ last'.op = "play_next_song"
           /\ last'.path # None
           /\ random_mode
           /\ HasCurrent
           /\ Len(PlayingList) >= 2)
          => last'.path # PlayingList[current_track_index + 1]]_vars

\* C11 witness: an advance in shuffle mode on a list of two or more tracks has
\* started a track and cached a next track other than it.
C11_Witness ==
    /\ last.op = "play_next_song"
    /\ last.err = "none"
    /\ random_mode
    /\ current_track_list = ActiveRef
    /\ Len(ActiveList) >= 2
    /\ HasCurrent
    /\ ActiveList[current_track_index + 1] = last.path
    /\ stored_next_song # None
    /\ stored_next_song # last.path

\* C12: toggle_shuffle flips the flag, raises nothing, leaves the current
\* index, the playing list and the active playlist as they are, and, when a
\* track of a non-empty list is current, replaces the cached next track by one
\* that follows the new policy: the sequential successor when shuffle is now
\* off, a track of the list (another one than the current when there is one)
\* when shuffle is now on.
C12_ToggleFrame ==
    [][last'.op = "toggle_shuffle"
         => /\ random_mode' = ~random_mode
            /\ UNCHANGED <<current_track_index, current_track_list, current_playlist>>
            /\ HasCurrent
                 => /\ last'.err = "none"
                    /\ IF random_mode'
                       THEN /\ Contains(PlayingList, stored_next_song')
                            /\ Len(PlayingList) >= 2
                                 => stored_next_song' # PlayingList[current_track_index + 1]
                       ELSE stored_next_song' =
                              PlayingList[((current_track_index + 1) % Len(PlayingList)) + 1]]_vars

\* C13: a monitor tick calls play_next_song only in a state where the engine
\* is not busy and elapsed >= duration - 1.
C13_AdvanceOnlyWhenFinished ==
    [][last'.op = "play_next_song"
         => /\ ~busy
            /\ Elapsed >= current_track_duration - 1]_vars

\* C13 witness: the monitor advanced after time had passed since start-up, and
\* the track it moved to plays.
C13_Witness ==
    /\ last.op = "play_next_song"
    /\ last.err = "none"
    /\ busy
    /\ play_start_time = now
    /\ now > Epoch

\* The engine reports not-busy and elapsed is 0 for a track that was started:
\* the transient stall right after load.
StalledAtStart ==
    /\ play_start_time # None
    /\ ~busy
    /\ Elapsed = 0

\* C14: for every track with a known (non-zero) duration, a monitor tick that
\* runs while the engine reports not-busy and elapsed is 0 does not advance.
C14_NoAdvanceOnStall ==
    [][(current_track_duration # 0 /\ StalledAtStart) => last'.op # "play_next_song"]_vars

\* C14 (amended): for every track with a duration of 2 seconds or more, a
\* monitor tick that runs while the engine reports not-busy and elapsed is 0
\* does not advance (for a duration of 1, duration - 1 = 0 <= elapsed and the
\* tick advances).
C14_NoAdvanceOnStallLongTrack ==
    [][(current_track_duration >= 2 /\ StalledAtStart) => last'.op # "play_next_song"]_vars

\* C14 witness: the monitor ran on a stalled track of duration >= 2 and left
\* it current.
C14_Witness ==
    /\ last.op = "monitor_playback"
    /\ current_track_duration >= 2
    /\ StalledAtStart
    /\ loaded # None
    /\ "monitor_playback" \in scheduled

\* C15: while the current track's duration is 0, no monitor tick calls
\* play_next_song.
C15_NoAdvanceOnUnknownDuration ==
    [][current_track_duration = 0 => last'.op # "play_next_song"]_vars

\* C15 witness: a track of duration 0 was started, the engine is no longer
\* busy, and the monitor ran without advancing.
C15_Witness ==
    /\ last.op = "monitor_playback"
    /\ current_track_duration = 0
    /\ HasCurrent
    /\ loaded = PlayingList[current_track_index + 1]
    /\ play_start_time # None
    /\ ~busy

\* The current track has duration 0, was loaded and started, and the engine
\* has gone from busy to not busy (no handler of this specification stops it,
\* so the music reached its end).
UnknownDurationTrackEnded ==
    /\ current_track_duration = 0
    /\ HasCurrent
    /\ loaded = PlayingList[current_track_index + 1]
    /\ play_start_time # None
    /\ ~busy

\* C16: for a track of duration 0 the end is detected from the engine alone:
\* a monitor tick that runs after the engine went from busy to not busy
\* advances to the next track.
C16_UnknownDurationEndAdvances ==
    [][(/\ UnknownDurationTrackEnded
        /\ last'.op \in {"monitor_playback", "play_next_song"})
         => last'.op = "play_next_song"]_vars

\* C17: when the engine fails to load the track in play_track_by_path, the
\* playback state keeps the values it had before the call: active list, current
\* index, current duration, cached next track, start time and offset.
C17_LoadErrorLeavesState ==
    [][(last'.op = "play_track_by_path" /\ last'.err = "LoadError")
         => UNCHANGED <<current_track_list, current_track_index,
                        current_track_duration, stored_next_song,
                        play_start_time, play_offset>>]_vars

\* C18: when the engine's seek fails in on_progress_release, the reference wall
\* time and the offset keep their values, so the elapsed value of a started
\* track does not move.
C18_SeekErrorLeavesState ==
    [][(/\ last'.op = "on_progress_release"
        /\ last'.err = "SeekError"
        /\ play_start_time # None)
         => /\ UNCHANGED <<play_start_time, play_offset>>
            /\ ElapsedOf(now', play_start_time', play_offset', enginePos') = Elapsed]_vars

\* C19: on an empty playing list, toggle_shuffle (with the lookahead
\* recomputation it makes) and play_next_song raise nothing and change neither
\* the current index nor what the engine plays.
C19_EmptyListNoOp ==
    [][(/\ current_track_list # None
        /\ Len(PlayingList) = 0
        /\ last'.op \in {"toggle_shuffle", "play_next_song"})
         => /\ last'.err = "none"
            /\ UNCHANGED <<current_track_index, loaded, busy, scheduled>>]_vars

\* The producer is past the push of its iteration, or has exited.
PastPush == prodPc \in {"sleep", "loop", "off"}

\* C20: once the stop flag is set, the producer starts no further iteration;
\* when it is past the push of the iteration it was in, the queue never grows
\* again and the producer stays past the push; and the producer thread
\* terminates.
C20_CooperativeCancellation ==
    /\ [][stop_event => ~(prodPc = "loop" /\ prodPc' = "compute")]_vars
    /\ [][(stop_event /\ PastPush)
            => /\ Len(plasma_queue') <= Len(plasma_queue)
               /\ stop_event' => PastPush']_vars
    /\ [](stop_event => <>(prodPc = "off"))

\* C20 witness: the window was closed while the producer was running, and the
\* producer, having made frames, has left its loop.
C20_Witness ==
    /\ stop_event
    /\ ~vis_open
    /\ prodPc = "off"
    /\ vis_last = "exited"
    /\ frames_made >= 1

\* C21: a consumer tick never blocks; on an empty channel it changes neither
\* the rendered frame nor the channel; on a non-empty channel the frame it
\* removes and renders is the most recently pushed of the buffered frames.
C21_ConsumerTakesLatest ==
    /\ [](consumerScheduled => ENABLED UpdateCanvas)
    /\ [][vis_last' = "empty" => UNCHANGED <<canvas_image, plasma_queue>>]_vars
    /\ [][vis_last' = "rendered"
            => /\ canvas_image' = plasma_queue[Len(plasma_queue)]
               /\ Len(plasma_queue') = Len(plasma_queue) - 1
               /\ \A i \in 1..Len(plasma_queue') : plasma_queue'[i] # canvas_image']_vars

\* C23: while user_dragging is set, a run of update_progress_bar leaves the
\* value of the seek control as it is.
C23_NoProgressWriteWhileDragging ==
    [][(user_dragging /\ last'.op = "update_progress_bar")
         => scale_value' = scale_value]_vars

\* C23 witness: the progress tick ran on a playing track while the user held
\* the seek control at a value other than the elapsed one.
C23_Witness ==
    /\ last.op = "update_progress_bar"
    /\ user_dragging
    /\ busy
    /\ play_start_time # None
    /\ scale_value # Min(Elapsed, scale_to)

\* C27: after stop_music no track is loaded or started until the user
\* activates one: the step that follows a press of Stop is not an advance of
\* the end-of-track monitor.
C27_StopIsNotAdvanced ==
    [][last.op = "stop_music" => last'.op # "play_next_song"]_vars

\* C26: whenever the engine holds a loaded track, the current index is set and
\* within the bounds of the active track list, and the track at that index has
\* the loaded path and the recorded current duration.
C26_IndexTrackConsistency ==
    loaded # None
      => /\ HasCurrent
         /\ PlayingList[current_track_index + 1] = loaded
         /\ current_track_duration = Duration(loaded)

\* The current track has a known duration, was loaded and started, the engine
\* is not busy and the elapsed time has reached duration - 1: the track has
\* played to its end.
KnownDurationTrackEnded ==
    /\ current_track_duration # 0
    /\ HasCurrent
    /\ loaded = PlayingList[current_track_index + 1]
    /\ play_start_time # None
    /\ ~busy
    /\ Elapsed >= current_track_duration - 1

\* C25: when a track of known duration has played to its end, the monitor tick
\* that runs next advances: play_next_song raises nothing, stays scheduled, and
\* unless the engine refuses the file the next track is loaded and playing.
C25_PlayLoopProgress ==
    [][(/\ KnownDurationTrackEnded
        /\ "monitor_playback" \in scheduled
        /\ last'.op \in {"monitor_playback", "play_next_song"})
         => /\ last'.op = "play_next_song"
            /\ last'.path # None
            /\ last'.err \in {"none", "LoadError"}
            /\ "monitor_playback" \in scheduled'
            /\ last'.err = "none" => (busy' /\ loaded' = last'.path)]_vars

\* The track sequence stored under a name: the list the name refers to.
StoredSequence(pd, hp, name) == IF pd[name] = None THEN <<>> ELSE hp[pd[name]]

\* The names whose stored track sequence a step changes.
ChangedNames ==
    {n \in Names : StoredSequence(playlists_data', heap', n)
                     # StoredSequence(playlists_data, heap, n)}

\* C28: a step that adds a track to or removes a track from the current
\* playlist (the store's names stay bound as they are, the contents of a list
\* change) changes the track sequence of exactly one name.
C28_PlaylistIsolation ==
    [][(playlists_data' = playlists_data /\ heap' # heap)
         => Cardinality(ChangedNames) = 1]_vars

\* A step taken by a worker thread: the folder scan or the frame producer.
WorkerStep ==
    \/ last'.op \in {"scan_folder", "scan_and_update"} /\ last' # last
    \/ prodPc' # prodPc

\* The track list the sequencer plays from, in the state after the step.
PlayingListAfter ==
    IF current_track_list' = LIB THEN library' ELSE heap'[current_track_list']

\* C22: no worker thread writes playback/sequencer state: a step of the scan
\* worker or of the frame producer leaves the contents of the track list being
\* played, the current index, the shuffle flag, the cached next track and the
\* timing references unchanged, while a track is current.
C22_WorkersLeaveSequencerState ==
    [][(WorkerStep /\ HasCurrent)
         => /\ PlayingListAfter = PlayingList
            /\ UNCHANGED <<current_track_index, random_mode, stored_next_song,
                           play_start_time, play_offset>>]_vars

\* C24: load_playlists() right after save_playlists(store) returns the names
\* of the store, each with as many tracks as the store has under it, in the
\* same order, every track a dict of exactly path, title, artist, album and
\* duration whose values are the track's own, without an artwork field.
C24_PersistenceRoundTrip ==
    [][(persist_last = "save_playlists" /\ persist_last' = "load_playlists")
         => /\ DOMAIN reloaded' = DOMAIN plist
            /\ \A n \in DOMAIN plist :
                 /\ Len(reloaded'[n]) = Len(plist[n])
                 /\ \A i \in 1..Len(plist[n]) :
                      /\ DOMAIN reloaded'[n][i] = SavedKeys
                      /\ "album_art" \notin DOMAIN reloaded'[n][i]
                      /\ \A k \in SavedKeys :
                           reloaded'[n][i][k] = Get(plist[n][i], k)]_vars

\* A store of two playlists, one of two tracks of which the second carries
\* artwork, has been saved and loaded back.
C24_Witness ==
    /\ persist_last = "load_playlists"
    /\ playlists_file.state = "json"
    /\ DOMAIN plist = Names
    /\ DOMAIN reloaded = Names
    /\ \E n \in Names :
         /\ Len(plist[n]) = 2
         /\ Len(reloaded[n]) = 2
         /\ plist[n][1].path # plist[n][2].path
         /\ "album_art" \in DOMAIN plist[n][2]
         /\ plist[n][2].album_art.t = "Image"
         /\ reloaded[n][2].path = plist[n][2].path

====
